---- MODULE Spec2Model ----
(***************************************************************************)
(* Haikommit: a diff is analysed into an intent, a list of file names and  *)
(* a list of keywords (DiffAnalyzer), and the analysis is turned into a    *)
(* three line haiku (HaikuGenerator) whose lines are measured by a         *)
(* syllable counter (SyllableCounter).  Texts are TLA+ strings, handled    *)
(* character by character with Len, SubSeq and \o.                         *)
(***************************************************************************)
EXTENDS Integers, Sequences, FiniteSets, TLC

VARIABLES
  intent,     \* DiffAnalyzer.intent
  files,      \* DiffAnalyzer.files: the identity of a list object in heap
  keywords,   \* DiffAnalyzer.keywords
  heap,       \* the live list objects: identity -> sequence of strings
  ret,        \* the record returned by the last analyze call, with its diff
  nCalls,     \* analyze calls made on the instance so far
  haiku,      \* the argument and the result of the last generate call
  counted,    \* the argument and the result of the last counter call
  measured,   \* the argument and the result of the last count_phrase call
  adjustment, \* the arguments and the result of the last _adjust_syllables call
  pc,         \* per thread: position inside analyze
  frame,      \* per thread: the local variables of its analyze call
  out,        \* per thread: the record its analyze call returned
  hashSeed    \* the hash seed of the process, which orders its sets of strings

vars == <<intent, files, keywords, heap, ret, nCalls, haiku, counted, measured, adjustment, pc, frame, out, hashSeed>>

-----------------------------------------------------------------------------
(* Characters and strings *)

Ch(s, i) == SubSeq(s, i, i)

CharSet(s) == {Ch(s, i) : i \in 1..Len(s)}

LowerAlphabet == "abcdefghijklmnopqrstuvwxyz"

UpperAlphabet == "ABCDEFGHIJKLMNOPQRSTUVWXYZ"

LowerLetters == CharSet(LowerAlphabet)

UpperLetters == CharSet(UpperAlphabet)

Letters == LowerLetters \cup UpperLetters

DigitChars == CharSet("0123456789")

\* \w of the regular expressions
WordChars == Letters \cup DigitChars \cup {"_"}

\* \s of the regular expressions
SpaceChars == {" ", "\t", "\n", "\r", "\f"}

Min(a, b) == IF a < b THEN a ELSE b

Max(a, b) == IF a > b THEN a ELSE b

Abs(a) == IF a < 0 THEN 0 - a ELSE a

Range(q) == {q[i] : i \in 1..Len(q)}

\* the least and the greatest member of a non-empty set of integers
Least(S) == CHOOSE i \in S : \A j \in S : i <= j

Greatest(S) == CHOOSE i \in S : \A j \in S : i >= j

\* s[i:] and s[:i] with 1-based positions
From(s, i) == IF i > Len(s) THEN "" ELSE SubSeq(s, i, Len(s))

Upto(s, i) == IF i < 1 THEN "" ELSE SubSeq(s, 1, Min(i, Len(s)))

\* the text p stands in s at position i
At(s, i, p) == i >= 1 /\ i + Len(p) - 1 <= Len(s) /\ SubSeq(s, i, i + Len(p) - 1) = p

\* p in s
Contains(s, p) == \E i \in 1..(Len(s) - Len(p) + 1) : At(s, i, p)

\* s.find(p), 0 when absent
Find(s, p) ==
  LET hits == {i \in 1..(Len(s) - Len(p) + 1) : At(s, i, p)}
  IN  IF hits = {} THEN 0 ELSE Least(hits)

EndsWith(s, p) == Len(p) <= Len(s) /\ At(s, Len(s) - Len(p) + 1, p)

LowerMap == [c \in UpperLetters |->
               Ch(LowerAlphabet, CHOOSE i \in 1..26 : Ch(UpperAlphabet, i) = c)]

LowerCh(c) == IF c \in UpperLetters THEN LowerMap[c] ELSE c

RECURSIVE MapChars(_, _, _, _)
\* the characters of s at positions lo..hi, each mapped by f (dropped when
\* f gives the empty string)
MapChars(s, lo, hi, f) ==
  IF lo > hi THEN ""
  ELSE IF lo = hi THEN f[Ch(s, lo)]
  ELSE LET mid == (lo + hi) \div 2
       IN  MapChars(s, lo, mid, f) \o MapChars(s, mid + 1, hi, f)

\* str.lower()
Lower(s) == MapChars(s, 1, Len(s), [c \in CharSet(s) |-> LowerCh(c)])

\* re.sub(r'[^a-z]', '', s)
KeepLower(s) ==
  MapChars(s, 1, Len(s), [c \in CharSet(s) |-> IF c \in LowerLetters THEN c ELSE ""])

\* str.strip()
Strip(s) ==
  LET keep == {i \in 1..Len(s) : Ch(s, i) \notin SpaceChars}
  IN  IF keep = {} THEN ""
      ELSE SubSeq(s, Least(keep), Greatest(keep))

\* the end of the maximal run of characters of cls that starts at i (i - 1
\* when there is none)
RunEnd(s, i, cls) ==
  LET stop == {j \in i..Len(s) : Ch(s, j) \notin cls}
  IN  IF stop = {} THEN Len(s) ELSE Least(stop) - 1

RECURSIVE Runs(_, _, _)
\* the maximal runs of characters of the class cls in s from position i on,
\* left to right (re.findall of cls+, str.split for the complement of \s)
Runs(s, i, cls) ==
  LET starts == {j \in i..Len(s) : Ch(s, j) \in cls}
  IN  IF starts = {} THEN <<>>
      ELSE LET b == Least(starts)
               e == RunEnd(s, b, cls)
           IN  <<SubSeq(s, b, e)>> \o Runs(s, e + 1, cls)

RECURSIVE Pick(_, _, _)
\* the elements of q at the positions of keep from position i on, in order
Pick(q, i, keep) ==
  IF i > Len(q) THEN <<>>
  ELSE (IF i \in keep THEN <<q[i]>> ELSE <<>>) \o Pick(q, i + 1, keep)

-----------------------------------------------------------------------------
(* SyllableCounter *)

tech_dict ==
  [async |-> 2, await |-> 2, const |-> 1, let |-> 1, var |-> 1,
   function |-> 2, class |-> 1, import |-> 2, export |-> 2,
   return |-> 2, lambda |-> 2, def |-> 1, jsx |-> 3, tsx |-> 3,
   api |-> 3, json |-> 1, xml |-> 3, html |-> 4, css |-> 3,
   js |-> 2, ts |-> 2, py |-> 1, npm |-> 3, git |-> 1,
   test |-> 1, tests |-> 1, spec |-> 1, mock |-> 1,
   boolean |-> 3, string |-> 1, integer |-> 3, array |-> 2,
   object |-> 2, null |-> 1, undefined |-> 4, true |-> 1, false |-> 1,
   button |-> 2, component |-> 3, controller |-> 3, model |-> 2,
   view |-> 1, router |-> 2, service |-> 2, utils |-> 2,
   config |-> 2, error |-> 2, token |-> 2, auth |-> 1,
   login |-> 2, logout |-> 2, user |-> 2, admin |-> 2,
   database |-> 3, schema |-> 2, query |-> 2, cache |-> 1,
   redux |-> 2, react |-> 2, vue |-> 1, angular |-> 3,
   typescript |-> 3, javascript |-> 4, python |-> 2,
   docker |-> 2, kubernetes |-> 4, deploy |-> 2,
   build |-> 1, compile |-> 2, bundle |-> 2, webpack |-> 2,
   eslint |-> 2, prettier |-> 3, babel |-> 2,
   readme |-> 2, license |-> 2, changelog |-> 2,
   refactor |-> 3, cleanup |-> 2, optimize |-> 3,
   feature |-> 2, bugfix |-> 2, hotfix |-> 2, patch |-> 1,
   added |-> 2, removed |-> 2, updated |-> 3, fixed |-> 1,
   changed |-> 1, created |-> 3, deleted |-> 3,
   tested |-> 2, passed |-> 1, failed |-> 1, working |-> 2,
   better |-> 2, improved |-> 2, modified |-> 3, complete |-> 2,
   ready |-> 2, apply |-> 2, applied |-> 2]

vowels == CharSet("aeiouy")

\* the loop of _heuristic_count counting every vowel, as if previous_was_vowel
\* were never set
VowelGroups_every_vowel(word) ==
  Cardinality({i \in 1..Len(word) : Ch(word, i) \in vowels})

\* the loop of _heuristic_count: positions where a vowel follows a non-vowel
\* or starts the word
VowelGroups(word) ==
  Cardinality({i \in 1..Len(word) :
                 Ch(word, i) \in vowels /\ (i = 1 \/ Ch(word, i - 1) \notin vowels)})

\* _heuristic_count without its final max(1, syllables)
_heuristic_count_no_clamp(word) ==
  IF Len(word) <= 1 THEN 1
  ELSE LET groups == VowelGroups(word)
           silent == IF EndsWith(word, "e") /\ groups > 1 THEN groups - 1 ELSE groups
       IN  IF EndsWith(word, "le") /\ Len(word) > 2 /\ Ch(word, Len(word) - 2) \notin vowels
           THEN silent + 1 ELSE silent

_heuristic_count(word) ==
  IF Len(word) <= 1 THEN 1
  ELSE LET groups == VowelGroups(word)
           silent == IF EndsWith(word, "e") /\ groups > 1 THEN groups - 1 ELSE groups
           syllables == IF EndsWith(word, "le") /\ Len(word) > 2
                           /\ Ch(word, Len(word) - 2) \notin vowels
                        THEN silent + 1 ELSE silent
       IN  Max(1, syllables)

\* CleanCount looking into the built-in dictionary before the custom one
CleanCount_tech_first(custom_dict, word_clean) ==
  IF word_clean = "" THEN 0
  ELSE IF word_clean \in DOMAIN tech_dict THEN tech_dict[word_clean]
  ELSE IF word_clean \in DOMAIN custom_dict THEN custom_dict[word_clean]
  ELSE _heuristic_count(word_clean)

\* count_syllables from the point where word_clean is computed
CleanCount(custom_dict, word_clean) ==
  IF word_clean = "" THEN 0
  ELSE IF word_clean \in DOMAIN custom_dict THEN custom_dict[word_clean]
  ELSE IF word_clean \in DOMAIN tech_dict THEN tech_dict[word_clean]
  ELSE _heuristic_count(word_clean)

count_syllables(custom_dict, word) ==
  IF word = "" THEN 0
  ELSE CleanCount(custom_dict, KeepLower(Strip(Lower(word))))

RECURSIVE SumSyllables(_, _)
SumSyllables(custom_dict, words) ==
  IF words = <<>> THEN 0
  ELSE count_syllables(custom_dict, Head(words)) + SumSyllables(custom_dict, Tail(words))

count_phrase(custom_dict, phrase) == SumSyllables(custom_dict, Runs(phrase, 1, Letters))

\* SyllableCounter() built without a custom dictionary
NoDict == [w \in {} |-> 0]

-----------------------------------------------------------------------------
(* DiffAnalyzer: the regular expressions *)

\* a pattern \bword\b
W(word) == [kind |-> "word", text |-> word]

\* a pattern matching a literal text anywhere
L(text) == [kind |-> "literal", text |-> text]

\* a pattern text$ , without re.MULTILINE
E(text) == [kind |-> "end", text |-> text]

FIX_PATTERNS ==
  <<W("fix"), W("bug"), W("patch"), W("error"), W("issue"), W("repair"), W("correct")>>

FEATURE_PATTERNS ==
  <<W("feat"), W("add"), W("create"), W("new"), W("implement"), W("introduce")>>

REFACTOR_PATTERNS ==
  <<W("refactor"), W("cleanup"), W("style"), W("restructure"), W("improve"), W("optimize")>>

TEST_PATTERNS == <<W("test"), L(".spec."), L(".test."), L("__test__")>>

DOCS_PATTERNS == <<W("doc"), W("readme"), E(".md"), W("comment")>>

\* \b at the gap before position i of s
Boundary(s, i) ==
  LET before == i > 1 /\ i - 1 <= Len(s) /\ Ch(s, i - 1) \in WordChars
      after == i >= 1 /\ i <= Len(s) /\ Ch(s, i) \in WordChars
  IN  before # after

\* re.search(pattern, s) finds a match
re_search(pattern, s) ==
  CASE pattern.kind = "word" ->
         \E i \in 1..(Len(s) - Len(pattern.text) + 1) :
           At(s, i, pattern.text) /\ Boundary(s, i) /\ Boundary(s, i + Len(pattern.text))
    [] pattern.kind = "literal" -> Contains(s, pattern.text)
    [] pattern.kind = "end" ->
         EndsWith(s, pattern.text) \/ EndsWith(s, pattern.text \o "\n")

any_search(patterns, s) == \E k \in 1..Len(patterns) : re_search(patterns[k], s)

\* ^ under re.MULTILINE
LineStart(s, i) == i = 1 \/ (i > 1 /\ i <= Len(s) + 1 /\ Ch(s, i - 1) = "\n")

\* len(re.findall(r'^\+[^+]', diff, re.MULTILINE)) for sign "+", and the
\* same for sign "-"
CountSigned(diff, sign) ==
  Cardinality({i \in 1..(Len(diff) - 1) :
                 LineStart(diff, i) /\ Ch(diff, i) = sign /\ Ch(diff, i + 1) # sign})

\* _detect_intent without its last else: balanced line counts assign nothing
\* and the intent stays as analyze reset it
_detect_intent_no_else(diff) ==
  LET diff_lower == Lower(diff)
  IN  IF any_search(TEST_PATTERNS, diff_lower) THEN "test"
      ELSE IF any_search(DOCS_PATTERNS, diff_lower) THEN "docs"
      ELSE IF any_search(FIX_PATTERNS, diff_lower) THEN "fix"
      ELSE IF any_search(FEATURE_PATTERNS, diff_lower) THEN "feature"
      ELSE IF any_search(REFACTOR_PATTERNS, diff_lower) THEN "refactor"
      ELSE IF CountSigned(diff, "+") > CountSigned(diff, "-") * 2 THEN "feature"
      ELSE IF CountSigned(diff, "-") > CountSigned(diff, "+") * 2 THEN "remove"
      ELSE "change"

\* _detect_intent with the fix patterns checked first
_detect_intent_fix_first(diff) ==
  LET diff_lower == Lower(diff)
  IN  IF any_search(FIX_PATTERNS, diff_lower) THEN "fix"
      ELSE IF any_search(TEST_PATTERNS, diff_lower) THEN "test"
      ELSE IF any_search(DOCS_PATTERNS, diff_lower) THEN "docs"
      ELSE IF any_search(FEATURE_PATTERNS, diff_lower) THEN "feature"
      ELSE IF any_search(REFACTOR_PATTERNS, diff_lower) THEN "refactor"
      ELSE IF CountSigned(diff, "+") > CountSigned(diff, "-") * 2 THEN "feature"
      ELSE IF CountSigned(diff, "-") > CountSigned(diff, "+") * 2 THEN "remove"
      ELSE "update"

\* the value _detect_intent assigns to self.intent
_detect_intent(diff) ==
  LET diff_lower == Lower(diff)
  IN  IF any_search(TEST_PATTERNS, diff_lower) THEN "test"
      ELSE IF any_search(DOCS_PATTERNS, diff_lower) THEN "docs"
      ELSE IF any_search(FIX_PATTERNS, diff_lower) THEN "fix"
      ELSE IF any_search(FEATURE_PATTERNS, diff_lower) THEN "feature"
      ELSE IF any_search(REFACTOR_PATTERNS, diff_lower) THEN "refactor"
      ELSE LET additions == CountSigned(diff, "+")
               deletions == CountSigned(diff, "-")
           IN  IF additions > deletions * 2 THEN "feature"
               ELSE IF deletions > additions * 2 THEN "remove"
               ELSE "update"

\* length of the header prefix (?:diff --git a/|[\+\-]{3} [ab]/) at i, else 0
HeaderLen(s, i) ==
  IF At(s, i, "diff --git a/") THEN 13
  ELSE IF /\ i + 5 <= Len(s)
          /\ \A k \in 0..2 : Ch(s, i + k) \in {"+", "-"}
          /\ Ch(s, i + 3) = " "
          /\ Ch(s, i + 4) \in {"a", "b"}
          /\ Ch(s, i + 5) = "/"
       THEN 6
  ELSE 0

\* file_pattern at position i: where the captured path starts and ends, 0
\* and 0 without a match
PathMatch(s, i) ==
  LET h == HeaderLen(s, i)
      e == RunEnd(s, i + h, CharSet(s) \ SpaceChars)
  IN  IF h > 0 /\ e >= i + h THEN [start |-> i + h, end |-> e]
      ELSE [start |-> 0, end |-> 0]

RECURSIVE FindPaths(_, _)
\* re.findall(file_pattern, diff): the captured paths of the matches from
\* position i on, each match starting after the one before it
FindPaths(s, i) ==
  LET hits == {j \in i..Len(s) : PathMatch(s, j).end > 0}
  IN  IF hits = {} THEN <<>>
      ELSE LET m == PathMatch(s, Least(hits))
           IN  <<SubSeq(s, m.start, m.end)>> \o FindPaths(s, m.end + 1)

\* os.path.basename
basename(path) ==
  LET slashes == {i \in 1..Len(path) : Ch(path, i) = "/"}
  IN  IF slashes = {} THEN path ELSE From(path, Greatest(slashes) + 1)

\* os.path.splitext(name)[0] for a name without directory part: the last
\* dot splits unless only dots come before it
splitext_root(name) ==
  LET dots == {i \in 1..Len(name) : Ch(name, i) = "."}
      last == IF dots = {} THEN 0 ELSE Greatest(dots)
  IN  IF last > 0 /\ \E k \in 1..(last - 1) : Ch(name, k) # "."
      THEN Upto(name, last - 1)
      ELSE name

RECURSIVE AppendNew(_, _)
\* q, then the elements of more that are not there yet, in order
AppendNew(q, more) ==
  IF more = <<>> THEN q
  ELSE AppendNew(IF Head(more) \in Range(q) THEN q ELSE Append(q, Head(more)), Tail(more))

\* FileStep without the test for '/dev/null'
FileStep_keeps_null(st, file_path) ==
  LET filename == basename(file_path)
  IN  IF filename \notin st.seen
      THEN [list |-> Append(st.list, filename), seen |-> st.seen \cup {filename}]
      ELSE st

\* one pass of the loop of _extract_files: st = [list, seen]
FileStep(st, file_path) ==
  IF file_path # "/dev/null"
  THEN LET filename == basename(file_path)
       IN  IF filename \notin st.seen
           THEN [list |-> Append(st.list, filename), seen |-> st.seen \cup {filename}]
           ELSE st
  ELSE st

RECURSIVE FileLoop(_, _)
FileLoop(st, paths) ==
  IF paths = <<>> THEN st ELSE FileLoop(FileStep(st, Head(paths)), Tail(paths))

\* the content of self.files after _extract_files, given its content before
\* and the paths that re.findall(file_pattern, diff) gave
_extract_files(list, paths) == FileLoop([list |-> list, seen |-> {}], paths).list

-----------------------------------------------------------------------------
(* DiffAnalyzer: keywords *)

\* keywords longer than this many characters are kept from file names and
\* declarations
SHORT_PART == 2

\* identifiers taken from one added line
PER_LINE == 3

\* keywords kept
KEYWORD_LIMIT == 10

RECURSIVE LowerAll(_)
LowerAll(q) == IF q = <<>> THEN <<>> ELSE <<Lower(Head(q))>> \o LowerAll(Tail(q))

RECURSIVE Flatten(_)
Flatten(qq) == IF qq = <<>> THEN <<>> ELSE Head(qq) \o Flatten(Tail(qq))

\* the parts of re.split(r'[._\-/]', filename) longer than two characters
FilenameParts(filename) ==
  LET IsLong(part) == Len(part) > SHORT_PART
  IN  SelectSeq(Runs(filename, 1, CharSet(filename) \ {".", "_", "-", "/"}), IsLong)

DeclWords == <<"function", "def", "class", "const", "let", "var">>

\* (?:function|def|class|const|let|var)\s+([a-zA-Z_][a-zA-Z0-9_]*) at
\* position i: where the captured name starts and ends, 0 and 0 without a
\* match
DeclMatch(s, i) ==
  LET hits == {k \in 1..Len(DeclWords) : At(s, i, DeclWords[k])}
  IN  IF hits = {} THEN [start |-> 0, end |-> 0]
      ELSE LET k == Least(hits)
               sp == i + Len(DeclWords[k])
               spEnd == RunEnd(s, sp, SpaceChars)
           IN  IF spEnd >= sp /\ spEnd + 1 <= Len(s)
                  /\ Ch(s, spEnd + 1) \in (Letters \cup {"_"})
               THEN [start |-> spEnd + 1, end |-> RunEnd(s, spEnd + 1, WordChars)]
               ELSE [start |-> 0, end |-> 0]

RECURSIVE FindDecls(_, _)
\* re.findall(function_pattern, diff) from position i on
FindDecls(s, i) ==
  LET hits == {j \in i..Len(s) : DeclMatch(s, j).end > 0}
  IN  IF hits = {} THEN <<>>
      ELSE LET m == DeclMatch(s, Least(hits))
           IN  <<SubSeq(s, m.start, m.end)>> \o FindDecls(s, m.end + 1)

\* re.findall(r'^\+(.*)$', diff, re.MULTILINE)
AddedLines(diff) ==
  LET lines == Runs(diff, 1, CharSet(diff) \ {"\n"})
      IsAdded(line) == Ch(line, 1) = "+"
      added == SelectSeq(lines, IsAdded)
  IN  [k \in 1..Len(added) |-> From(added[k], 2)]

\* re.findall(r'\b([a-zA-Z_][a-zA-Z0-9_]{2,})\b', line)[:3]
LineIdentifiers(line) ==
  LET IsIdent(run) == Len(run) >= 3 /\ Ch(run, 1) \notin DigitChars
      found == SelectSeq(Runs(line, 1, WordChars), IsIdent)
  IN  SubSeq(found, 1, Min(PER_LINE, Len(found)))

\* what _extract_keywords takes from the diff text: the declared names longer
\* than two characters, then the identifiers of the added lines, lowercased
DiffWords(diff) ==
  LET IsLong(f) == Len(f) > SHORT_PART
      fromDecls == SelectSeq(FindDecls(diff, 1), IsLong)
      added == AddedLines(diff)
      fromLines == Flatten([k \in 1..Len(added) |-> LineIdentifiers(added[k])])
  IN  LowerAll(fromDecls \o fromLines)

\* the members of the local set keywords of _extract_keywords, in the order
\* in which they are added, given the content of self.files and DiffWords
KeywordSet(file_list, words) ==
  LET fromFiles == Flatten([k \in 1..Len(file_list) |-> FilenameParts(file_list[k])])
  IN  AppendNew(<<>>, LowerAll(fromFiles) \o words)

\* list(keywords) without the [:10]
SetOrder_uncapped(seed, members) ==
  LET n == Len(members)
      rotated == [k \in 1..n |-> members[((k - 1 + seed.rot) % n) + 1]]
  IN  IF seed.rev THEN [k \in 1..n |-> rotated[n + 1 - k]] ELSE rotated

\* list(keywords)[:10].  A set of strings is iterated in an order fixed by
\* the hash seed the interpreter draws when the process starts, not by the
\* program: under seed the members come in the order in which they were
\* added, rotated by seed.rot places and reversed when seed.rev holds.
SetOrder(seed, members) ==
  LET n == Len(members)
      rotated == [k \in 1..n |-> members[((k - 1 + seed.rot) % n) + 1]]
      ordered == IF seed.rev THEN [k \in 1..n |-> rotated[n + 1 - k]] ELSE rotated
  IN  SubSeq(ordered, 1, Min(n, KEYWORD_LIMIT))

-----------------------------------------------------------------------------
(* HaikuGenerator *)

templates ==
  [fix |->
     << <<"{problem}", "{action}", "{result}">>,
        <<"Bug found in {file}", "{action} applied to fix", "{result}">>,
        <<"{problem} no more", "{action} solves the issue", "{result}">> >>,
   feature |->
     << <<"{feature} added", "{description}", "Now complete">>,
        <<"New {feature}", "{description}", "{benefit}">>,
        <<"{feature} is here", "{description}", "Ready to use">> >>,
   refactor |->
     << <<"Code cleaned up now", "{description}", "{benefit}">>,
        <<"Refactored {file}", "{description}", "Much better now">>,
        <<"{description}", "Structure improved throughout", "Cleaner code now">> >>,
   test |->
     << <<"Tests added here", "{description}", "All passing now">>,
        <<"New test coverage", "{description}", "Safety improved">>,
        <<"{description}", "Validating the new code", "Tests all pass now">> >>,
   docs |->
     << <<"Documentation", "{description}", "Now up to date">>,
        <<"README updated", "{description}", "Much clearer now">>,
        <<"{description}", "Documentation improved here", "Better explained">> >>,
   update |->
     << <<"Updated {file}", "{description}", "Changes applied">>,
        <<"{description}", "Modified to improve flow", "Update complete">>,
        <<"Code updated now", "{description}", "Working better">> >>,
   remove |->
     << <<"Removed {file}", "{description}", "Cleanup complete">>,
        <<"{description}", "Unused code removed now", "Cleaner codebase">>,
        <<"Deleted old code", "{description}", "Simpler now">> >>]

target_syllables == <<5, 7, 5>>

\* the tolerance of _adjust_syllables
TOLERANCE == 1

RECURSIVE ReplaceFrom(_, _, _, _)
\* str.replace(var, value) on the part of s from position i on
ReplaceFrom(s, i, var, value) ==
  LET hits == {j \in i..Len(s) : At(s, j, var)}
  IN  IF hits = {} THEN From(s, i)
      ELSE LET k == Least(hits)
           IN  (IF k > i THEN SubSeq(s, i, k - 1) ELSE "") \o value
               \o ReplaceFrom(s, k + Len(var), var, value)

\* the dictionary subs of _try_template, in its order
Subs(file_base, keyword1, keyword2) ==
  << <<"{problem}", keyword1 \o " error">>,
     <<"{action}", "Fixed " \o keyword2>>,
     <<"{result}", "Working now">>,
     <<"{feature}", keyword1>>,
     <<"{description}", keyword2 \o " in " \o file_base>>,
     <<"{benefit}", "Improved code">>,
     <<"{file}", file_base>> >>

RECURSIVE Substitute(_, _)
\* the loop over subs.items()
Substitute(line, subs) ==
  IF subs = <<>> THEN line
  ELSE Substitute(IF Contains(line, Head(subs)[1])
                  THEN ReplaceFrom(line, 1, Head(subs)[1], Head(subs)[2])
                  ELSE line,
                  Tail(subs))

RECURSIVE JoinWith(_, _)
\* sep.join(parts)
JoinWith(parts, sep) ==
  IF parts = <<>> THEN ""
  ELSE IF Len(parts) = 1 THEN parts[1]
  ELSE parts[1] \o sep \o JoinWith(Tail(parts), sep)

\* line.replace(article, ' ', 1) followed by re.sub(r'\s+', ' ', line).strip()
DropArticle(line, article) ==
  LET k == Find(line, article)
      cut == Upto(line, k - 1) \o " " \o From(line, k + Len(article))
  IN  JoinWith(Runs(cut, 1, CharSet(cut) \ SpaceChars), " ")

\* the if/elif chain of _adjust_syllables over the articles: the first of
\* ' the ', ' a ', ' an ' that is in the line is dropped
WithoutArticle(line) ==
  IF Contains(line, " the ") THEN DropArticle(line, " the ")
  ELSE IF Contains(line, " a ") THEN DropArticle(line, " a ")
  ELSE IF Contains(line, " an ") THEN DropArticle(line, " an ")
  ELSE line

\* the end of _adjust_syllables for a line of final_count syllables: <<>>
\* for None, else the line in a sequence of one
Tolerated(line, final_count, target) ==
  IF Abs(final_count - target) <= TOLERANCE THEN <<line>> ELSE <<>>

\* Adjusted without the second count_phrase: the line without its article is
\* judged by the count of the line with it
Adjusted_no_remeasure(custom_dict, line, current, target) ==
  IF current = target THEN <<line>>
  ELSE IF current > target
  THEN Tolerated(WithoutArticle(line), current, target)
  ELSE IF /\ Len(Runs(line, 1, CharSet(line) \ SpaceChars)) > 0
          /\ target - current = 1
          /\ ~EndsWith(line, " now")
          /\ count_phrase(custom_dict, line \o " now") = target
       THEN <<line \o " now">>
       ELSE Tolerated(line, current, target)

\* _adjust_syllables for a line measured as current
Adjusted(custom_dict, line, current, target) ==
  IF current = target THEN <<line>>
  ELSE IF current > target
  THEN Tolerated(WithoutArticle(line),
                 count_phrase(custom_dict, WithoutArticle(line)), target)
  ELSE IF /\ Len(Runs(line, 1, CharSet(line) \ SpaceChars)) > 0
          /\ target - current = 1
          /\ ~EndsWith(line, " now")
          /\ count_phrase(custom_dict, line \o " now") = target
       THEN <<line \o " now">>
       ELSE Tolerated(line, current, target)

\* _adjust_syllables: <<>> for None, else the line in a sequence of one
_adjust_syllables(custom_dict, line, target) ==
  Adjusted(custom_dict, line, count_phrase(custom_dict, line), target)

\* result of _try_template for the adjusted lines: <<>> for None when one
\* of them is None
AllOrNone(adjusted) ==
  IF \E i \in 1..Len(adjusted) : adjusted[i] = <<>> THEN <<>>
  ELSE [i \in 1..Len(adjusted) |-> adjusted[i][1]]

\* _try_template: the three lines, <<>> for None
_try_template(custom_dict, template, file_base, keyword1, keyword2) ==
  AllOrNone([i \in 1..Len(template) |->
               _adjust_syllables(custom_dict,
                                 Substitute(template[i], Subs(file_base, keyword1, keyword2)),
                                 target_syllables[i])])

\* the canned lines of _generate_simple_haiku before adjustment
SimpleLines(intent_, subject, keyword) ==
  CASE intent_ = "fix" ->
         <<"Bug fixed in code", "Fixed " \o keyword \o " " \o subject, "Working well now">>
    [] intent_ = "feature" ->
         <<"Added " \o keyword, "New " \o subject \o " is ready now", "Feature complete">>
    [] intent_ = "refactor" ->
         <<"Code cleaned up now", "Refactored " \o subject, "Better code now">>
    [] intent_ = "test" ->
         <<"Tests added here", "Testing " \o subject \o " now", "All passing now">>
    [] intent_ = "docs" ->
         <<"Docs updated now", "Improved " \o subject \o " readme", "Much clearer now">>
    [] intent_ = "remove" ->
         <<"Removed old code", "Deleted " \o subject \o " file", "Cleanup complete">>
    [] OTHER ->
         <<"Code updated now", "Modified " \o subject, "Changes applied">>

\* DefaultLines with a second line of nine syllables
DefaultLines_long ==
  <<"Code changes made here", "Modified to work much better now", "Working well now">>

\* the fixed lines that replace a canned line that cannot be adjusted
DefaultLines == <<"Code changes made here", "Modified to work better now", "Working well now">>

\* x or default, for x the result of _adjust_syllables: None and the empty
\* string both give the default
OrDefault(x, default) == IF x = <<>> \/ x = <<"">> THEN default ELSE x[1]

\* _generate_simple_haiku without the fixed lines: a canned line that cannot
\* be adjusted is left empty
_generate_simple_haiku_no_default(custom_dict, intent_, subject, keyword) ==
  LET canned == SimpleLines(intent_, subject, keyword)
  IN  [i \in 1..3 |->
         OrDefault(_adjust_syllables(custom_dict, canned[i], target_syllables[i]), "")]

_generate_simple_haiku(custom_dict, intent_, subject, keyword) ==
  LET canned == SimpleLines(intent_, subject, keyword)
  IN  [i \in 1..3 |->
         OrDefault(_adjust_syllables(custom_dict, canned[i], target_syllables[i]),
                   DefaultLines[i])]

\* FirstOr keeping the lines of the last template that gives lines, as if
\* the loop did not return at the first
FirstOr_last(tried, fallback) ==
  LET hits == {i \in 1..Len(tried) : tried[i] # <<>>}
  IN  IF hits = {} THEN fallback ELSE tried[Greatest(hits)]

\* the loop of _build_haiku over the templates: the lines of the first
\* template that gives lines, and the fallback when none does
FirstOr(tried, fallback) ==
  LET hits == {i \in 1..Len(tried) : tried[i] # <<>>}
  IN  IF hits = {} THEN fallback ELSE tried[Least(hits)]

\* _build_haiku from the point where file_base, keyword1 and keyword2 are set
BuildFrom(custom_dict, intent_, file_base, keyword1, keyword2, candidates) ==
  FirstOr([i \in 1..Len(candidates) |->
             _try_template(custom_dict, candidates[i], file_base, keyword1, keyword2)],
          _generate_simple_haiku(custom_dict, intent_, file_base, keyword1))

_build_haiku(custom_dict, intent_, file_list, keyword_list, candidates) ==
  BuildFrom(custom_dict, intent_,
            IF file_list # <<>> THEN splitext_root(file_list[1]) ELSE "file",
            IF Len(keyword_list) > 0 THEN keyword_list[1] ELSE "change",
            IF Len(keyword_list) > 1 THEN keyword_list[2] ELSE "update",
            candidates)

\* generate(analysis) for analysis = [intent, files, keywords]
generate(custom_dict, analysis) ==
  LET candidates == IF analysis.intent \in DOMAIN templates
                    THEN templates[analysis.intent] ELSE templates["update"]
  IN  JoinWith(_build_haiku(custom_dict, analysis.intent, analysis.files,
                            analysis.keywords, candidates), "\n")

RECURSIVE SplitFrom(_, _)
\* str.split('\n') of the part of text from position i on
SplitFrom(text, i) ==
  LET breaks == {k \in i..Len(text) : Ch(text, k) = "\n"}
  IN  IF breaks = {} THEN <<From(text, i)>>
      ELSE LET k == Least(breaks)
           IN  <<IF k = i THEN "" ELSE SubSeq(text, i, k - 1)>> \o SplitFrom(text, k + 1)

SplitLines(text) == SplitFrom(text, 1)

-----------------------------------------------------------------------------
(* The inputs *)

\* lines of a composed diff
MaxLines == 2

\* rotations of the iteration order of a set
MaxRot == 1

\* analyze calls on one DiffAnalyzer instance
MaxCalls == 2

\* letters of a composed word
MaxWordLen == 3

Fragments ==
  {"diff --git a/tests/util.spec.js b/tests/util.spec.js",
   "+++ b/docs/guide.md",
   "--- a/lib/guide.md",
   "+  if (ERROR) throw new Fault('x');",
   "-improve_it Style"}

RECURSIVE Composed(_)
\* the texts of n lines of Fragments
Composed(n) ==
  IF n = 0 THEN {""}
  ELSE IF n = 1 THEN Fragments
  ELSE {head \o "\n" \o line : head \in Composed(n - 1), line \in Fragments}

\* one word per pattern group, in the order test, docs, fix, feature, refactor
GroupWords == <<"test", "doc", "fix", "add", "style">>

\* a text for every choice of pattern groups
GroupTexts == {JoinWith(Pick(GroupWords, 1, S), " ") : S \in SUBSET (1..Len(GroupWords))}

Samples ==
  {" ", "\n", "+", "+\n+\n+\n-q", "-a\n-b\n-c\n+d", "-a\n+b\n+c", "++x\n+y",
   "\ndiff --git a/src/auth.js b/src/auth.js\n+++ b/src/auth.js\n@@ -10,0 +11 @@\n+  if (error) throw new Error('Auth failed');\n",
   "\ndiff --git a/src/Button.jsx b/src/Button.jsx\nnew file mode 100644\n+++ b/src/Button.jsx\n@@ -0,0 +1,5 @@\n+export function Button() {\n+  return <button>Click</button>;\n+}\n",
   "\ndiff --git a/README.md b/README.md\n+++ b/README.md\n@@ -1,0 +2,3 @@\n+## Installation\n+Run npm install\n",
   "diff --git a/tests/validators.spec.js b/tests/validators.spec.js\nnew file mode 100644\n--- /dev/null\n+++ b/tests/validators.spec.js\n+describe('Email Validator', () => {",
   "diff --git a/docs/guide.md b/docs/guide.md\n+notes on usage",
   "diff --git a/docs/guide.md b/docs/guide.md\n",
   "--- a//dev/null\n+++ b/src/app.py\n--- a/lib/app.py\n+++ b/docs/notes.txt",
   "+-+ b/x/y.tar.gz -+- a/.bashrc\n+def class Foo\n+undefined var  _x1 let\tq9 function\n f",
   "TEST_x test_y FIX it",
   "a Test, a Doc: Fix new Style",
   "+const btn = create()\n-improve_it Style",
   "+++ b/a_b-c.d/e.txt\n+1abc abc ab abcd _ab x_y_z q1w2e3 fourth\n-const   veryLongName = 1",
   "diff --git a/src/xxxxxxxxxxxxxxxxxxxxxxxxxxxxxxxxxxxxxxxxxxxxxxxxxxxxxxxxxxxxxxxxxxxxxxxxxxxxxxxxxxxxxxxxxxxxxxxxxxxxxxxxxxxx.py",
   "--- a/null\n--- a/dev/null\n--- a//dev/null\n+++ b/src/",
   "+k1a k2a k3a\n+k4a k5a k6a\n+k7a k8a k9a\n+k10 k11 k12\n",
   "+bug\n+add it"}

Diffs == Samples \cup GroupTexts \cup UNION {Composed(n) : n \in 0..MaxLines}

HashSeeds == [rot : 0..MaxRot, rev : BOOLEAN]

CustomDicts ==
  {NoDict,
   ("testword" :> 3 @@ "myapp" :> 2),
   ("test" :> 2 @@ "here" :> 3 @@ "now" :> 2 @@ "bzz" :> 4)}

\* hand-made analysis records, as the tests pass them to generate
Records ==
  [intent : {"fix", "feature", "refactor", "test", "docs", "update", "remove", "change"},
   files : {<<>>, <<"auth.js">>, <<"README.md", "x.py">>, <<"controller.js">>, <<"">>},
   keywords : {<<>>, <<"bug">>, <<"error", "token", "fix">>, <<"button", "component", "new">>,
               <<"readme", "documentation">>, <<"auth", "user", "error">>}]

WordAlphabet == {"a", "e", "l", "b", "T", "1", " "}

RECURSIVE WordsOfLen(_)
WordsOfLen(n) ==
  IF n = 0 THEN {""} ELSE {w \o c : w \in WordsOfLen(n - 1), c \in WordAlphabet}

Words ==
  {"bug", "feature", "documentation", "async", "function", "kubernetes", "testword",
   "myapp", "Test", "TESTS", " API ", "123", "...", "rhythm", "table", "here", "bzz",
   "now!", "x_y", "t-e-s-t"}
  \cup UNION {WordsOfLen(n) : n \in 0..MaxWordLen}

\* words of a composed line
MaxLineWords == 3

LineWords == {"the", "a", "an", "now", "code", "bug", "documentation"}

RECURSIVE LinesOf(_)
\* the lines of n words of LineWords, one space between two words
LinesOf(n) ==
  IF n = 1 THEN LineWords
  ELSE {head \o " " \o word : head \in LinesOf(n - 1), word \in LineWords}

\* lines given to _adjust_syllables: composed ones, and filled template and
\* canned lines
AdjustLines ==
  UNION {LinesOf(n) : n \in 1..MaxLineWords}
  \cup {"", "Validating the new code", "Fixed token solves the issue", "Tests added here",
        "update in ", "New  is ready now", "Working now", "Code updated now",
        "Structure improved throughout", "Fix a bug in an old module now",
        "Added an api to the the main view", "Test a bug the documentation"}

\* phrases measured with count_phrase
Phrases ==
  {"", "...", "Code changes made here", "All done now", "Working well now",
   "Modified to work better now", "Fix: the bug-report #12", "little table",
   "a  b\tc", "here, Here; HERE now"}

-----------------------------------------------------------------------------
(* The regular expression scans of the input diffs, made once per diff *)

Scan(diff) ==
  [intent |-> _detect_intent(diff),
   paths |-> FindPaths(diff, 1),
   words |-> DiffWords(diff)]

ScanOf == [d \in Diffs |-> Scan(d)]

-----------------------------------------------------------------------------
(* DiffAnalyzer: the statements of analyze, on the object
   self = [intent, files, keywords] and the heap of list objects *)

\* an identity no live list has
NewList(h) == Least((0..Cardinality(DOMAIN h)) \ DOMAIN h)

\* the heap without the lists that nothing in roots refers to
Collect(h, roots) == [id \in DOMAIN h \cap roots |-> h[id]]

\* ResetState without self.files = []: the list object of the call before is
\* kept
ResetState_keeps_files(self, h) ==
  [self |-> [intent |-> "change", files |-> self.files, keywords |-> <<>>], heap |-> h]

\* self.files = []: a new list object
ResetFiles(self, h) ==
  LET id == NewList(h)
  IN  [self |-> [self EXCEPT !.files = id], heap |-> (id :> <<>>) @@ h]

\* self.intent = 'change'; self.files = []; self.keywords = []
ResetState(self, h) ==
  LET s == ResetFiles([self EXCEPT !.intent = "change"], h)
  IN  [self |-> [s.self EXCEPT !.keywords = <<>>], heap |-> s.heap]

\* self._detect_intent(diff_output)
DetectState(s, d) ==
  [self |-> [s.self EXCEPT !.intent = ScanOf[d].intent], heap |-> s.heap]

\* self._extract_files(diff_output)
FilesState(s, d) ==
  [self |-> s.self,
   heap |-> [s.heap EXCEPT ![s.self.files] =
                             _extract_files(s.heap[s.self.files], ScanOf[d].paths)]]

\* self._extract_keywords(diff_output)
KeywordsState(s, d, seed) ==
  [self |-> [s.self EXCEPT !.keywords =
                             SetOrder(seed, KeywordSet(s.heap[s.self.files], ScanOf[d].words))],
   heap |-> s.heap]

\* the dictionary analyze returns: files is the list object itself
Returned(self) == [intent |-> self.intent, files |-> self.files, keywords |-> self.keywords]

\* analyze(diff_output) from start to return: the statements above, each on
\* the state [self, heap] the one before it left
AnalyzeState(self, h, d, seed) ==
  KeywordsState(FilesState(DetectState(ResetState(self, h), d), d), d, seed)

-----------------------------------------------------------------------------
(* One caller: analyze calls one after another, then generate *)

None == <<>>

Self == [intent |-> intent, files |-> files, keywords |-> keywords]

InitObjects ==
  /\ intent = "change"
  /\ files = 0
  /\ keywords = <<>>
  /\ heap = (0 :> <<>>)
  /\ ret = None
  /\ nCalls = 0
  /\ haiku = None
  /\ counted = None
  /\ measured = None
  /\ adjustment = None

Init ==
  /\ InitObjects
  /\ hashSeed \in HashSeeds
  /\ pc = <<>> /\ frame = <<>> /\ out = <<>>

\* the instance, the heap and the returned record when analyze(d) ends in
\* the state s
AnalyzeReturn(d, s) ==
  /\ intent' = s.self.intent
  /\ files' = s.self.files
  /\ keywords' = s.self.keywords
  /\ heap' = Collect(s.heap, {s.self.files})
  /\ ret' = [diff |-> d, record |-> Returned(s.self)]

\* analyzer.analyze(d)
Analyze(d) ==
  /\ haiku = None
  /\ nCalls < MaxCalls
  /\ AnalyzeReturn(d, AnalyzeState(Self, heap, d, hashSeed))
  /\ nCalls' = nCalls + 1
  /\ UNCHANGED <<haiku, counted, measured, adjustment, hashSeed, pc, frame, out>>

\* the analysis record as generate reads it
Analysis(record, h) ==
  [intent |-> record.intent, files |-> h[record.files], keywords |-> record.keywords]

\* generator.generate(analysis) on the record analyze returned, the
\* generator built on a counter with the dictionary custom_dict
Generate(custom_dict) ==
  /\ ret # None
  /\ haiku = None
  /\ LET analysis == Analysis(ret.record, heap)
     IN  haiku' = [custom_dict |-> custom_dict, analysis |-> analysis,
                   analyzed |-> TRUE, diff |-> ret.diff,
                   text |-> generate(custom_dict, analysis)]
  /\ UNCHANGED <<intent, files, keywords, heap, ret, nCalls, counted, measured, adjustment, hashSeed, pc, frame, out>>

\* generator.generate(record) on a record made by hand
GenerateRecord(custom_dict, record) ==
  /\ ret = None
  /\ haiku = None
  /\ haiku' = [custom_dict |-> custom_dict, analysis |-> record,
               analyzed |-> FALSE, diff |-> "",
               text |-> generate(custom_dict, record)]
  /\ UNCHANGED <<intent, files, keywords, heap, ret, nCalls, counted, measured, adjustment, hashSeed, pc, frame, out>>

Next ==
  \/ \E d \in Diffs : Analyze(d)
  \/ \E cd \in CustomDicts : Generate(cd)
  \/ \E cd \in CustomDicts, record \in Records : GenerateRecord(cd, record)

Spec == Init /\ [][Next]_vars

-----------------------------------------------------------------------------
(* The syllable counter on its own *)

InitCounter ==
  /\ InitObjects
  /\ hashSeed = [rot |-> 0, rev |-> FALSE]
  /\ pc = <<>> /\ frame = <<>> /\ out = <<>>

\* SyllableCounter(custom_dict).count_syllables(word)
CountSyllables(custom_dict, word) ==
  /\ counted = None
  /\ measured = None
  /\ counted' = [op |-> "count_syllables", custom_dict |-> custom_dict, text |-> word,
                 result |-> count_syllables(custom_dict, word)]
  /\ UNCHANGED <<intent, files, keywords, heap, ret, nCalls, haiku, measured, adjustment,
                 hashSeed, pc, frame, out>>

\* SyllableCounter(custom_dict).count_phrase(phrase)
CountPhrase(custom_dict, phrase) ==
  /\ counted = None
  /\ measured = None
  /\ measured' = [custom_dict |-> custom_dict, text |-> phrase,
                  result |-> count_phrase(custom_dict, phrase)]
  /\ UNCHANGED <<intent, files, keywords, heap, ret, nCalls, haiku, counted, adjustment,
                 hashSeed, pc, frame, out>>

NextCounter ==
  \/ \E cd \in CustomDicts, word \in Words : CountSyllables(cd, word)
  \/ \E cd \in CustomDicts, phrase \in Phrases : CountPhrase(cd, phrase)

SpecCounter == InitCounter /\ [][NextCounter]_vars

-----------------------------------------------------------------------------
(* One call of _adjust_syllables *)

InitAdjust ==
  /\ InitObjects
  /\ hashSeed = [rot |-> 0, rev |-> FALSE]
  /\ pc = <<>> /\ frame = <<>> /\ out = <<>>

\* HaikuGenerator(SyllableCounter(custom_dict))._adjust_syllables(line, target)
AdjustSyllables(custom_dict, line, target) ==
  /\ adjustment = None
  /\ adjustment' = [custom_dict |-> custom_dict, line |-> line, target |-> target,
                    result |-> _adjust_syllables(custom_dict, line, target)]
  /\ UNCHANGED <<intent, files, keywords, heap, ret, nCalls, haiku, counted, measured,
                 hashSeed, pc, frame, out>>

NextAdjust ==
  \E cd \in CustomDicts, line \in AdjustLines, target \in Range(target_syllables) :
    AdjustSyllables(cd, line, target)

SpecAdjust == InitAdjust /\ [][NextAdjust]_vars
-----------------------------------------------------------------------------
(* Threads: analyze calls on one DiffAnalyzer instance that interleave
   statement by statement *)

\* threads that call analyze
NumThreads == 2

Threads == 1..NumThreads

ThreadDiffs ==
  {"",
   "+++ b/docs/guide.md",
   "diff --git a/tests/util.spec.js b/tests/util.spec.js",
   "+  if (ERROR) throw new Fault('x');"}

InitThreads ==
  /\ InitObjects
  /\ hashSeed = [rot |-> 0, rev |-> FALSE]
  /\ pc = [t \in Threads |-> "reset_intent"]
  /\ frame \in [Threads -> [diff : ThreadDiffs, paths : {<<>>}, seen : {{}}, members : {<<>>}]]
  /\ out = [t \in Threads |-> None]

\* the list objects something still refers to
Live(self_files, returned) ==
  {self_files} \cup {returned[t].files : t \in {u \in Threads : returned[u] # None}}

Goto(t, label) == pc' = [pc EXCEPT ![t] = label]

\* self.intent = 'change'
T_ResetIntent(t) ==
  /\ pc[t] = "reset_intent"
  /\ intent' = "change"
  /\ Goto(t, "reset_files")
  /\ UNCHANGED <<files, keywords, heap, ret, nCalls, haiku, counted, measured, adjustment, frame, out, hashSeed>>

\* self.files = []
T_ResetFiles(t) ==
  /\ pc[t] = "reset_files"
  /\ LET s == ResetFiles(Self, heap)
     IN  /\ files' = s.self.files
         /\ heap' = Collect(s.heap, Live(s.self.files, out))
  /\ Goto(t, "reset_keywords")
  /\ UNCHANGED <<intent, keywords, ret, nCalls, haiku, counted, measured, adjustment, frame, out, hashSeed>>

\* self.keywords = []
T_ResetKeywords(t) ==
  /\ pc[t] = "reset_keywords"
  /\ keywords' = <<>>
  /\ Goto(t, "detect")
  /\ UNCHANGED <<intent, files, heap, ret, nCalls, haiku, counted, measured, adjustment, frame, out, hashSeed>>

\* self._detect_intent(diff_output)
T_DetectIntent(t) ==
  /\ pc[t] = "detect"
  /\ intent' = DetectState([self |-> Self, heap |-> heap], frame[t].diff).self.intent
  /\ Goto(t, "findall")
  /\ UNCHANGED <<files, keywords, heap, ret, nCalls, haiku, counted, measured, adjustment, frame, out, hashSeed>>

\* _extract_files: files = re.findall(file_pattern, diff); seen = set()
T_FindFiles(t) ==
  /\ pc[t] = "findall"
  /\ frame' = [frame EXCEPT ![t].paths = ScanOf[frame[t].diff].paths, ![t].seen = {}]
  /\ Goto(t, IF ScanOf[frame[t].diff].paths = <<>> THEN "keywords" ELSE "loop")
  /\ UNCHANGED <<intent, files, keywords, heap, ret, nCalls, haiku, counted, measured, adjustment, out, hashSeed>>

\* _extract_files: one pass of the loop, on the list self.files is now
T_FileStep(t) ==
  /\ pc[t] = "loop"
  /\ LET st == FileStep([list |-> heap[files], seen |-> frame[t].seen], Head(frame[t].paths))
     IN  /\ heap' = [heap EXCEPT ![files] = st.list]
         /\ frame' = [frame EXCEPT ![t].paths = Tail(frame[t].paths), ![t].seen = st.seen]
  /\ Goto(t, IF Tail(frame[t].paths) = <<>> THEN "keywords" ELSE "loop")
  /\ UNCHANGED <<intent, files, keywords, ret, nCalls, haiku, counted, measured, adjustment, out, hashSeed>>

\* _extract_keywords: the local set keywords, from the list self.files is now
T_CollectKeywords(t) ==
  /\ pc[t] = "keywords"
  /\ frame' = [frame EXCEPT ![t].members = KeywordSet(heap[files], ScanOf[frame[t].diff].words)]
  /\ Goto(t, "assign")
  /\ UNCHANGED <<intent, files, keywords, heap, ret, nCalls, haiku, counted, measured, adjustment, out, hashSeed>>

\* _extract_keywords: self.keywords = list(keywords)[:10]
T_AssignKeywords(t) ==
  /\ pc[t] = "assign"
  /\ keywords' = SetOrder(hashSeed, frame[t].members)
  /\ Goto(t, "return")
  /\ UNCHANGED <<intent, files, heap, ret, nCalls, haiku, counted, measured, adjustment, frame, out, hashSeed>>

\* return {'intent': self.intent, 'files': self.files, 'keywords': self.keywords}
T_Return(t) ==
  /\ pc[t] = "return"
  /\ out' = [out EXCEPT ![t] = Returned(Self)]
  /\ Goto(t, "done")
  /\ UNCHANGED <<intent, files, keywords, heap, ret, nCalls, haiku, counted, measured, adjustment, frame, hashSeed>>

NextThreads ==
  \E t \in Threads :
    \/ T_ResetIntent(t)
    \/ T_ResetFiles(t)
    \/ T_ResetKeywords(t)
    \/ T_DetectIntent(t)
    \/ T_FindFiles(t)
    \/ T_FileStep(t)
    \/ T_CollectKeywords(t)
    \/ T_AssignKeywords(t)
    \/ T_Return(t)

SpecThreads == InitThreads /\ [][NextThreads]_vars

-----------------------------------------------------------------------------
(* Properties of analyze *)

Intents == {"fix", "feature", "refactor", "test", "docs", "update", "remove"}

\* the list of file names of a returned record
FilesOf(record) == heap[record.files]

\* C1: the intent of every record analyze returns is one of fix, feature,
\* refactor, test, docs, update and remove, never the initial 'change',
\* also for the empty diff.
C1_IntentIsClassified == ret # None => ret.record.intent \in Intents

C1_Witness == ret # None /\ ret.diff = "" /\ ret.record.intent = "update"

\* the pattern groups in the order of their priority, with their intents
PriorityGroups ==
  << <<TEST_PATTERNS, "test">>, <<DOCS_PATTERNS, "docs">>, <<FIX_PATTERNS, "fix">>,
     <<FEATURE_PATTERNS, "feature">>, <<REFACTOR_PATTERNS, "refactor">> >>

\* C3: the pattern groups are checked against the lowercased diff in the
\* order test, docs, fix, feature, refactor, and the first group with a
\* matching pattern gives the intent, whatever later groups match; a diff
\* that contains '.spec.' is test.
C3_PriorityOrder ==
  ret # None =>
    LET low == Lower(ret.diff)
    IN  /\ \A g \in 1..Len(PriorityGroups) :
             (/\ any_search(PriorityGroups[g][1], low)
              /\ \A f \in 1..(g - 1) : ~any_search(PriorityGroups[f][1], low))
             => ret.record.intent = PriorityGroups[g][2]
        /\ Contains(low, ".spec.") => ret.record.intent = "test"

C3_Witness ==
  /\ ret # None
  /\ \A g \in 1..Len(PriorityGroups) : any_search(PriorityGroups[g][1], Lower(ret.diff))
  /\ ret.diff # Lower(ret.diff)
  /\ ret.record.intent = "test"

\* the base names of the captured paths of a diff other than '/dev/null', in
\* the order of the diff
BaseNames(diff) ==
  LET paths == FindPaths(diff, 1)
      IsFile(path) == path # "/dev/null"
      kept == SelectSeq(paths, IsFile)
  IN  [k \in 1..Len(kept) |-> basename(kept[k])]

FirstAt(q, x) == Least({k \in 1..Len(q) : q[k] = x})

\* C4: files of a returned record has no duplicates, holds neither
\* '/dev/null' nor a name that only a '/dev/null' path gives, holds base
\* names only (no directory part), and lists them in the order in which
\* each base name first comes in the diff.
C4_FilesUniqueOrdered ==
  ret # None =>
    LET fl == FilesOf(ret.record)
        names == BaseNames(ret.diff)
    IN  /\ \A i, j \in 1..Len(fl) : i # j => fl[i] # fl[j]
        /\ "/dev/null" \notin Range(fl)
        /\ Range(fl) = Range(names)
        /\ \A i \in 1..Len(fl) : ~Contains(fl[i], "/")
        /\ \A i, j \in 1..Len(fl) : i < j => FirstAt(names, fl[i]) < FirstAt(names, fl[j])

C4_Witness ==
  /\ ret # None
  /\ "/dev/null" \in Range(FindPaths(ret.diff, 1))
  /\ Len(BaseNames(ret.diff)) > Len(FilesOf(ret.record))
  /\ Len(FilesOf(ret.record)) >= 2

\* what a DiffAnalyzer that was just constructed returns for a diff
FreshAnalyze(d) ==
  LET s == AnalyzeState([intent |-> "change", files |-> 0, keywords |-> <<>>],
                        (0 :> <<>>), d, hashSeed)
  IN  [intent |-> s.self.intent, files |-> s.heap[s.self.files]]

\* C9: whatever calls were made on the instance before, analyze returns for
\* a diff the intent and the files a fresh analyzer returns for it.
C9_NoStateBetweenCalls ==
  ret # None =>
    /\ ret.record.intent = FreshAnalyze(ret.diff).intent
    /\ FilesOf(ret.record) = FreshAnalyze(ret.diff).files

C9_Witness ==
  /\ ret # None
  /\ nCalls >= 2
  /\ Len(FilesOf(ret.record)) >= 2
  /\ ret.record.intent = "test"

\* what the call of thread t returns when no other call runs
Alone(t) ==
  LET s == AnalyzeState([intent |-> "change", files |-> 0, keywords |-> <<>>],
                        (0 :> <<>>), frame[t].diff, hashSeed)
  IN  [intent |-> s.self.intent, files |-> s.heap[s.self.files], keywords |-> s.self.keywords]

\* C10: when analyze calls for different diffs interleave on one instance,
\* each call returns the record it returns when run alone: its intent is
\* not 'change', and its files and keywords are those of its own diff.
C10_CallsIsolated ==
  \A t \in Threads :
    (pc[t] = "done" /\ \A u \in Threads \ {t} : frame[u].diff # frame[t].diff) =>
      /\ out[t].intent # "change"
      /\ out[t].intent = Alone(t).intent
      /\ heap[out[t].files] = Alone(t).files
      /\ out[t].keywords = Alone(t).keywords

\* C11: keywords of a returned record has at most 10 elements, no element
\* twice, and no element with an uppercase letter.
C11_KeywordsCapped ==
  ret # None =>
    LET kw == ret.record.keywords
    IN  /\ Len(kw) <= 10
        /\ \A i, j \in 1..Len(kw) : i # j => kw[i] # kw[j]
        /\ \A i \in 1..Len(kw) : CharSet(kw[i]) \cap UpperLetters = {}

C11_Witness ==
  /\ ret # None
  /\ Len(KeywordSet(FilesOf(ret.record), DiffWords(ret.diff))) > 10
  /\ Len(ret.record.keywords) = 10

\* the lines of text that begin with sign and do not go on with a second one
SingleSigned(text, sign) ==
  {k \in 1..Len(SplitLines(text)) :
     /\ Len(SplitLines(text)[k]) >= 1
     /\ Ch(SplitLines(text)[k], 1) = sign
     /\ (Len(SplitLines(text)[k]) >= 2 => Ch(SplitLines(text)[k], 2) # sign)}

\* no pattern of the five groups matches the lowercased diff
NoPatternMatches(diff) ==
  \A g \in 1..Len(PriorityGroups) : ~any_search(PriorityGroups[g][1], Lower(diff))

\* C14: when no pattern matches, with additions the number of lines that
\* begin with a single '+' and deletions the number of lines that begin with
\* a single '-', the intent is feature if additions > 2 * deletions, else
\* remove if deletions > 2 * additions, else update.
C14_LineCounts ==
  (ret # None /\ NoPatternMatches(ret.diff)) =>
    LET additions == Cardinality(SingleSigned(ret.diff, "+"))
        deletions == Cardinality(SingleSigned(ret.diff, "-"))
    IN  ret.record.intent = IF additions > 2 * deletions THEN "feature"
                            ELSE IF deletions > 2 * additions THEN "remove"
                            ELSE "update"

\* C15: a diff that matches no test pattern and has, in a header line
\* anywhere in its text, a file whose name ends in '.md' is docs.
C15_MarkdownIsDocs ==
  (/\ ret # None
   /\ ~any_search(TEST_PATTERNS, Lower(ret.diff))
   /\ \E k \in 1..Len(FindPaths(ret.diff, 1)) : EndsWith(FindPaths(ret.diff, 1)[k], ".md"))
    => ret.record.intent = "docs"

-----------------------------------------------------------------------------
(* Properties of generate *)

HaikuLines == SplitLines(haiku.text)

\* C2: for every diff, the empty and the blank ones too, generate(analyze(d))
\* is a text of exactly three lines, none of them blank.
C2_ThreeLines ==
  (haiku # None /\ haiku.analyzed) =>
    /\ Len(HaikuLines) = 3
    /\ \A i \in 1..3 : Strip(HaikuLines[i]) # ""

C2_Witness ==
  /\ haiku # None /\ haiku.analyzed
  /\ haiku.diff # "" /\ Strip(haiku.diff) = ""
  /\ Len(HaikuLines) = 3

\* C7: with a counter without custom dictionary, every line of the result of
\* generate counts within one syllable of its target 5, 7, 5, whether it
\* comes from a template, from the canned haiku or from the fixed lines.
C7_WithinTolerance ==
  (haiku # None /\ haiku.custom_dict = NoDict) =>
    /\ Len(HaikuLines) = 3
    /\ \A i \in 1..3 :
         Abs(count_phrase(NoDict, HaikuLines[i]) - target_syllables[i]) <= 1

C7_Witness ==
  /\ haiku # None /\ haiku.custom_dict = NoDict /\ haiku.analyzed
  /\ Len(HaikuLines) = 3
  /\ HaikuLines[2] = DefaultLines[2]
  /\ count_phrase(NoDict, HaikuLines[2]) = 8

\* C8: every line of generate(analyze(d)) is shorter than 100 characters,
\* however long the file names and identifiers of d are.
C8_ShortLines ==
  (haiku # None /\ haiku.analyzed) => \A i \in 1..Len(HaikuLines) : Len(HaikuLines[i]) < 100

\* the templates generate tried for the record of the last call, and the
\* words it filled them with
CallTemplates ==
  IF haiku.analysis.intent \in DOMAIN templates
  THEN templates[haiku.analysis.intent] ELSE templates["update"]

CallFileBase ==
  IF haiku.analysis.files # <<>> THEN splitext_root(haiku.analysis.files[1]) ELSE "file"

CallKeyword1 ==
  IF Len(haiku.analysis.keywords) > 0 THEN haiku.analysis.keywords[1] ELSE "change"

CallKeyword2 ==
  IF Len(haiku.analysis.keywords) > 1 THEN haiku.analysis.keywords[2] ELSE "update"

\* the i-th line of the k-th template, filled and adjusted: <<>> when rejected
TemplateLine(k, i) ==
  _adjust_syllables(haiku.custom_dict,
                    Substitute(CallTemplates[k][i],
                               Subs(CallFileBase, CallKeyword1, CallKeyword2)),
                    target_syllables[i])

\* all three lines of the k-th template are accepted
TemplateSucceeds(k) == \A i \in 1..3 : TemplateLine(k, i) # <<>>

\* the i-th canned line of the intent, adjusted: <<>> when rejected
CannedLine(i) ==
  _adjust_syllables(haiku.custom_dict,
                    SimpleLines(haiku.analysis.intent, CallFileBase, CallKeyword1)[i],
                    target_syllables[i])

\* C13: the result of generate is the three adjusted lines of the first
\* template, in the listed order, whose three lines are all accepted; when
\* no template succeeds it is the canned haiku of the intent, each line
\* adjusted on its own and each rejected line replaced by the fixed line of
\* its position.
C13_Ladder ==
  haiku # None =>
    \/ \E k \in 1..Len(CallTemplates) :
         /\ TemplateSucceeds(k)
         /\ \A j \in 1..(k - 1) : ~TemplateSucceeds(j)
         /\ HaikuLines = [i \in 1..3 |-> TemplateLine(k, i)[1]]
    \/ /\ \A k \in 1..Len(CallTemplates) : ~TemplateSucceeds(k)
       /\ HaikuLines =
            [i \in 1..3 |->
               IF CannedLine(i) # <<>> THEN CannedLine(i)[1]
               ELSE <<"Code changes made here", "Modified to work better now",
                      "Working well now">>[i]]

C13_Witness ==
  /\ haiku # None
  /\ \A k \in 1..Len(CallTemplates) : ~TemplateSucceeds(k)
  /\ CannedLine(1) # <<>>
  /\ CannedLine(2) = <<>>
  /\ HaikuLines[1] = CannedLine(1)[1]
  /\ HaikuLines[2] = "Modified to work better now"

\* line with the first occurrence of article replaced by one space, runs of
\* white space collapsed and the ends trimmed
Without(line, article) ==
  LET k == Least({i \in 1..Len(line) : At(line, i, article)})
      cut == Upto(line, k - 1) \o " " \o From(line, k + Len(article))
  IN  JoinWith(Runs(cut, 1, CharSet(cut) \ SpaceChars), " ")

\* the one edit of a line over its target
Shortened(line) ==
  IF Contains(line, " the ") THEN Without(line, " the ")
  ELSE IF Contains(line, " a ") THEN Without(line, " a ")
  ELSE IF Contains(line, " an ") THEN Without(line, " an ")
  ELSE line

\* the count of text under the dictionary of the last _adjust_syllables call
CallCount(text) == count_phrase(adjustment.custom_dict, text)

\* <<text>> when text counts within 1 of the target of the call, else <<>>
AcceptedAs(text) ==
  IF CallCount(text) - adjustment.target \in {-1, 0, 1} THEN <<text>> ELSE <<>>

\* C16: _adjust_syllables returns a line at its target unchanged; for a line
\* over its target it removes the first ' the ', else ' a ', else ' an ',
\* measures again and accepts the line within 1 of the target; it appends
\* ' now' to a line one below the target only if the line does not end in
\* ' now' and the longer line hits the target, and else returns the line; it
\* rejects a line two or more below the target; an accepted line is within
\* 1 of the target.
C16_OneEdit ==
  adjustment # None =>
    LET line == adjustment.line
        target == adjustment.target
        current == CallCount(line)
        result == adjustment.result
    IN  /\ current = target => result = <<line>>
        /\ current > target => result = AcceptedAs(Shortened(line))
        /\ current = target - 1 =>
             result = IF ~EndsWith(line, " now") /\ CallCount(line \o " now") = target
                      THEN <<line \o " now">> ELSE <<line>>
        /\ current <= target - 2 => result = <<>>
        /\ result # <<>> => CallCount(result[1]) - target \in {-1, 0, 1}

C16_Witness ==
  /\ adjustment # None
  /\ CallCount(adjustment.line) > adjustment.target + 1
  /\ Contains(adjustment.line, " the ")
  /\ Contains(adjustment.line, " a ")
  /\ adjustment.result = <<Without(adjustment.line, " the ")>>

-----------------------------------------------------------------------------
(* Properties of the syllable counter *)

\* the word as count_syllables looks it up
Cleaned(word) == KeepLower(Strip(Lower(word)))

\* C5: count_syllables gives the custom value of a cleaned word that the
\* custom dictionary has, whatever the built-in dictionary and the heuristic
\* give; the built-in value only when the custom dictionary lacks the word;
\* the heuristic count only when both lack it.
C5_OverrideFirst ==
  (counted # None /\ Cleaned(counted.text) # "") =>
    LET word == Cleaned(counted.text)
        custom == counted.custom_dict
    IN  /\ word \in DOMAIN custom => counted.result = custom[word]
        /\ (word \notin DOMAIN custom /\ word \in DOMAIN tech_dict)
             => counted.result = tech_dict[word]
        /\ (word \notin DOMAIN custom /\ word \notin DOMAIN tech_dict)
             => counted.result = _heuristic_count(word)

C5_Witness ==
  /\ counted # None
  /\ counted.text = "Test"
  /\ "test" \in DOMAIN counted.custom_dict
  /\ counted.custom_dict["test"] # tech_dict["test"]
  /\ counted.custom_dict["test"] # _heuristic_count("test")
  /\ counted.result = counted.custom_dict["test"]

HasLetter(text) == \E i \in 1..Len(text) : Ch(text, i) \in Letters

\* C6: count_syllables gives an integer of at least 1 for every text with a
\* letter (custom values being positive) and 0 exactly for the texts without
\* a letter.
C6_Total ==
  counted # None =>
    /\ counted.result \in Nat
    /\ HasLetter(counted.text) => counted.result >= 1
    /\ counted.result = 0 <=> ~HasLetter(counted.text)

C6_Witness ==
  /\ counted # None
  /\ counted.text = "bzz"
  /\ counted.custom_dict = NoDict
  /\ VowelGroups("bzz") = 0
  /\ counted.result = 1

\* positions of word where a vowel of a, e, i, o, u, y follows a non-vowel or
\* starts the word
Transitions(word) ==
  {i \in 1..Len(word) :
     /\ Ch(word, i) \in {"a", "e", "i", "o", "u", "y"}
     /\ (i > 1 => Ch(word, i - 1) \notin {"a", "e", "i", "o", "u", "y"})}

\* the reference heuristic applied to its count n of transitions
ReferenceFrom(word, n) ==
  Max(1, n - (IF EndsWith(word, "e") /\ n > 1 THEN 1 ELSE 0)
           + (IF /\ Len(word) >= 3
                 /\ EndsWith(word, "le")
                 /\ Ch(word, Len(word) - 2) \notin {"a", "e", "i", "o", "u", "y"}
              THEN 1 ELSE 0))

ReferenceCount(word) == ReferenceFrom(word, Cardinality(Transitions(word)))

\* a call of the counter without custom dictionary on text gave n
Gives(call, text, n) ==
  (call # None /\ call.custom_dict = NoDict /\ call.text = text) => call.result = n

\* C12: for a cleaned word that neither dictionary has, count_syllables is
\* the reference heuristic (vowel transitions, minus one for a final e when
\* there is more than one, plus one for a final le after a consonant, at
\* least 1); count_phrase is the sum of count_syllables over the maximal
\* runs of letters; 'bug' gives 1, 'documentation' 5, 'Code changes made
\* here' 5 and 'All done now' 3.
C12_HeuristicReference ==
  /\ (/\ counted # None
      /\ Cleaned(counted.text) # ""
      /\ Cleaned(counted.text) \notin DOMAIN counted.custom_dict \cup DOMAIN tech_dict)
       => counted.result = ReferenceCount(Cleaned(counted.text))
  /\ measured # None =>
       measured.result = SumSyllables(measured.custom_dict, Runs(measured.text, 1, Letters))
  /\ Gives(counted, "bug", 1)
  /\ Gives(counted, "documentation", 5)
  /\ Gives(measured, "Code changes made here", 5)
  /\ Gives(measured, "All done now", 3)

C12_Witness ==
  /\ measured # None
  /\ measured.custom_dict = NoDict
  /\ measured.text = "Code changes made here"
  /\ Range(Runs(Lower(measured.text), 1, Letters)) \cap DOMAIN tech_dict = {}
  /\ measured.result = 5

====
